---- MODULE Spec2Model ----
(***************************************************************************)
(* Model of fifobuff.hpp: the single-threaded ring buffer FIFOBuff<T> and  *)
(* the thread-safe wrapper FIFOBuff_TS<T> (two counting semaphores and a   *)
(* mutex around a FIFOBuff), together with the drivers of                  *)
(* fifobuff_test.cpp.                                                      *)
(*                                                                         *)
(* Storage is modelled slot by slot.  A slot holds either the value of a   *)
(* constructed element or NoObj (raw memory: never constructed, or the     *)
(* destructor has run on it).  Reading a NoObj slot is a read of           *)
(* indeterminate memory and may yield any value.                           *)
(***************************************************************************)
EXTENDS Integers, Sequences, FiniteSets, TLC

\* ---------------------------------------------------------------- bounds
MaxCap == 3          \* capacities 1..MaxCap are explored
MaxVal == 1          \* element values are 0..MaxVal
MaxAdds == 6         \* successful adds made by the single-threaded driver
WrapMaxCap == 5      \* capacities 1..WrapMaxCap in the wrap-around test
TSMaxCap == 2        \* capacities 1..TSMaxCap of a FIFOBuff_TS
NumThreads == 2      \* threads sharing a FIFOBuff_TS
NumProducers == 2    \* producer threads of the threaded test
NumConsumers == 2    \* NUM_CONSUMERS of the threaded test
NumProducts == 3     \* PRODUCTS of the threaded test
MaxCalls == 2        \* blocking calls of each kind a thread is given

Values == 0 .. MaxVal
NoObj == -1          \* raw memory / indeterminate content
nullptr == -2        \* the null out-slot pointer
Main == 0            \* the caller of the single-threaded tests (its 'tmp')
Unlocked == 0        \* the mutex is held by no thread
Threads == 1 .. NumThreads
POISON == -13        \* the sentinel of the threaded test
Producers == 1 .. NumProducers
Consumers == NumProducers + 1 .. NumProducers + NumConsumers

VARIABLES
  buffer,      \* FIFOBuff::buffer    slot -> Values \cup {NoObj}
  head,        \* FIFOBuff::head
  tail,        \* FIFOBuff::tail
  fifo_size,   \* FIFOBuff::fifo_size
  fifo_cap,    \* FIFOBuff::fifo_cap
  destroyed,   \* TRUE once ~FIFOBuff has run
  count,       \* Dummy::count relative to its baseline: live instances
  x,           \* the callers' out variables ('tmp', 'i'), by caller
  rv,          \* value returned by the last FIFOBuff add/remove/peek
  op,          \* name of the last operation executed
  absq,        \* abstract bounded FIFO sequence (reference model)
  nadded,      \* number of add calls that returned true
  nremoved,    \* number of remove calls that returned true
  wrap_pc,     \* TEST(wrap): the loop being executed
  wrap_i,      \* TEST(wrap): the loop variable i
  wrap_k,      \* TEST(wrap): number of elements removed (CAP/2 in the test)
  wrap_got,    \* TEST(wrap): the values read by the last loop, in order
  mutex,       \* FIFOBuff_TS::mutex: the thread holding it, or Unlocked
  add_sem,     \* FIFOBuff_TS::add_sem: value of the free-slot semaphore
  rem_sem,     \* FIFOBuff_TS::rem_sem: value of the filled-slot semaphore
  pc,          \* per thread: position inside its FIFOBuff_TS call, or "idle"
  opn,         \* per thread: the FIFOBuff_TS method it called last
  arg_item,    \* per thread: the 'item' argument of add / add_wait
  arg_pitem,   \* per thread: the 'pitem' argument of remove(_wait) / peek
  ret,         \* per thread: value returned by its last bool FIFOBuff_TS call
  net_done,    \* completed successful adds minus completed successful removes
  check,       \* TEST(threaded): check[], deliveries counted per product
  next_item,   \* TEST(threaded): products handed to add_wait so far
  poisons,     \* TEST(threaded): sentinels handed to add_wait so far
  quota_add,   \* per thread: add_wait calls it is to make
  quota_rem,   \* per thread: remove_wait calls it is to make
  made_add,    \* per thread: add_wait calls it has made
  made_rem     \* per thread: remove_wait calls it has made

fifo == <<buffer, head, tail, fifo_size, fifo_cap>>
vars == <<buffer, head, tail, fifo_size, fifo_cap, destroyed, count, x, rv,
          op, absq, nadded, nremoved, wrap_pc, wrap_i, wrap_k, wrap_got,
          mutex, add_sem, rem_sem, pc, opn, arg_item, arg_pitem, ret,
          net_done, check, next_item, poisons, quota_add, quota_rem, made_add,
          made_rem>>
drv == <<check, next_item, poisons, quota_add, quota_rem, made_add, made_rem>>
tsv == <<mutex, add_sem, rem_sem, pc, opn, arg_item, arg_pitem, ret,
         net_done>>
wrapv == <<wrap_pc, wrap_i, wrap_k, wrap_got>>

Callers == {Main}

\* ------------------------------------------------------------- FIFOBuff
\* Outcomes of reading slot s as a T (lines 119, 143).
Read(s) == IF buffer[s] = NoObj THEN Values ELSE {buffer[s]}

\* FIFOBuff(size_t max_cap), lines 44-46.
FIFOBuff(max_cap) ==
  /\ fifo_cap = max_cap
  /\ head = 0
  /\ tail = 0
  /\ fifo_size = 0
  /\ buffer = [s \in 0 .. max_cap - 1 |-> NoObj]
  /\ destroyed = FALSE

\* add with the full test off by one (<= for <).
add_off_by_one(item) ==
  IF fifo_size <= fifo_cap
  THEN /\ buffer' = [s \in DOMAIN buffer \cup {tail} |->
                       IF s = tail THEN item ELSE buffer[s]]
       /\ count' = count + 1
       /\ tail' = (tail + 1) % fifo_cap
       /\ fifo_size' = fifo_size + 1
       /\ rv' = TRUE
       /\ UNCHANGED <<head, fifo_cap>>
  ELSE /\ rv' = FALSE
       /\ UNCHANGED <<buffer, head, tail, fifo_size, fifo_cap, count>>

\* add advancing tail without the modulo.
add_no_wrap(item) ==
  IF fifo_size < fifo_cap
  THEN /\ buffer' = [s \in DOMAIN buffer \cup {tail} |->
                       IF s = tail THEN item ELSE buffer[s]]
       /\ count' = count + 1
       /\ tail' = tail + 1
       /\ fifo_size' = fifo_size + 1
       /\ rv' = TRUE
       /\ UNCHANGED <<head, fifo_cap>>
  ELSE /\ rv' = FALSE
       /\ UNCHANGED <<buffer, head, tail, fifo_size, fifo_cap, count>>

\* bool add(const T &item), lines 93-104.
add(item) ==
  IF fifo_size < fifo_cap
  THEN /\ buffer' = [buffer EXCEPT ![tail] = item]
       /\ count' = count + 1
       /\ tail' = (tail + 1) % fifo_cap
       /\ fifo_size' = fifo_size + 1
       /\ rv' = TRUE
       /\ UNCHANGED <<head, fifo_cap>>
  ELSE /\ rv' = FALSE
       /\ UNCHANGED <<buffer, head, tail, fifo_size, fifo_cap, count>>

\* remove copying from buffer + tail instead of buffer + head.
remove_copies_tail(pitem) ==
  IF fifo_size = 0
  THEN /\ rv' = FALSE
       /\ UNCHANGED <<buffer, head, tail, fifo_size, fifo_cap, count, x>>
  ELSE /\ IF pitem # nullptr
          THEN \E v \in Read(tail) : x' = [x EXCEPT ![pitem] = v]
          ELSE x' = x
       /\ buffer' = [buffer EXCEPT ![tail] = NoObj]
       /\ count' = count - 1
       /\ head' = (head + 1) % fifo_cap
       /\ fifo_size' = fifo_size - 1
       /\ rv' = TRUE
       /\ UNCHANGED <<tail, fifo_cap>>

\* remove that does not advance head.
remove_keeps_head(pitem) ==
  IF fifo_size = 0
  THEN /\ rv' = FALSE
       /\ UNCHANGED <<buffer, head, tail, fifo_size, fifo_cap, count, x>>
  ELSE /\ IF pitem # nullptr
          THEN \E v \in Read(head) : x' = [x EXCEPT ![pitem] = v]
          ELSE x' = x
       /\ buffer' = [buffer EXCEPT ![tail] = NoObj]
       /\ count' = count - 1
       /\ fifo_size' = fifo_size - 1
       /\ rv' = TRUE
       /\ UNCHANGED <<head, tail, fifo_cap>>

\* remove advancing head without the modulo.
remove_no_wrap(pitem) ==
  IF fifo_size = 0
  THEN /\ rv' = FALSE
       /\ UNCHANGED <<buffer, head, tail, fifo_size, fifo_cap, count, x>>
  ELSE /\ IF pitem # nullptr
          THEN \E v \in Read(head) : x' = [x EXCEPT ![pitem] = v]
          ELSE x' = x
       /\ buffer' = [buffer EXCEPT ![tail] = NoObj]
       /\ count' = count - 1
       /\ head' = head + 1
       /\ fifo_size' = fifo_size - 1
       /\ rv' = TRUE
       /\ UNCHANGED <<tail, fifo_cap>>

\* bool remove(T *pitem), lines 113-133.  pitem is nullptr or names the
\* caller's variable.  The destructor call of line 126 is on buffer + tail.
remove(pitem) ==
  IF fifo_size = 0
  THEN /\ rv' = FALSE
       /\ UNCHANGED <<buffer, head, tail, fifo_size, fifo_cap, count, x>>
  ELSE /\ IF pitem # nullptr
          THEN \E v \in Read(head) : x' = [x EXCEPT ![pitem] = v]
          ELSE x' = x
       /\ buffer' = [buffer EXCEPT ![tail] = NoObj]
       /\ count' = count - 1
       /\ head' = (head + 1) % fifo_cap
       /\ fifo_size' = fifo_size - 1
       /\ rv' = TRUE
       /\ UNCHANGED <<tail, fifo_cap>>

\* peek without a working empty test (>= for >).
peek_no_empty_test(pitem) ==
  IF fifo_size >= 0
  THEN /\ \E v \in Read(tail) : x' = [x EXCEPT ![pitem] = v]
       /\ rv' = TRUE
       /\ UNCHANGED <<buffer, head, tail, fifo_size, fifo_cap, count>>
  ELSE /\ rv' = FALSE
       /\ UNCHANGED <<buffer, head, tail, fifo_size, fifo_cap, count, x>>

\* bool peek(T *pitem) const, lines 141-149.  The copy of line 143 is from
\* buffer + tail.
peek(pitem) ==
  IF fifo_size > 0
  THEN /\ \E v \in Read(tail) : x' = [x EXCEPT ![pitem] = v]
       /\ rv' = TRUE
       /\ UNCHANGED <<buffer, head, tail, fifo_size, fifo_cap, count>>
  ELSE /\ rv' = FALSE
       /\ UNCHANGED <<buffer, head, tail, fifo_size, fifo_cap, count, x>>

\* The loop of ~FIFOBuff, lines 62-66: state after it has run to the end.
RECURSIVE DtorLoop(_, _, _, _)
DtorLoop(buf, h, n, cnt) ==
  IF n > 0
  THEN DtorLoop([buf EXCEPT ![h] = NoObj], (h + 1) % fifo_cap, n - 1, cnt - 1)
  ELSE [buffer |-> buf, head |-> h, fifo_size |-> n, count |-> cnt]

\* ~FIFOBuff releasing the storage without finalizing what is left in it.
Destructor_no_cleanup ==
  /\ destroyed' = TRUE
  /\ UNCHANGED <<buffer, head, fifo_size, count, tail, fifo_cap>>

\* ~FIFOBuff(), lines 58-71.
Destructor ==
  LET r == DtorLoop(buffer, head, fifo_size, count) IN
  /\ buffer' = r.buffer
  /\ head' = r.head
  /\ fifo_size' = r.fifo_size
  /\ count' = r.count
  /\ destroyed' = TRUE
  /\ UNCHANGED <<tail, fifo_cap>>

\* size_t size() const, lines 76-78.
size == fifo_size

\* size_t capacity() const, lines 83-85.
capacity == fifo_cap

\* ------------------------------------------------- reference FIFO model
\* The elements between head and tail, oldest first.
Contents == [i \in 1 .. fifo_size |-> buffer[(head + i - 1) % fifo_cap]]

\* The wrap-around test is not running.
WrapOff ==
  /\ wrap_pc = "off"
  /\ wrap_i = 0
  /\ wrap_k = 0
  /\ wrap_got = <<>>

\* Neither the threaded test nor the blocking-call drivers are running.
DrvOff ==
  /\ check = <<>>
  /\ next_item = 0
  /\ poisons = 0
  /\ quota_add = <<>>
  /\ quota_rem = <<>>
  /\ made_add = <<>>
  /\ made_rem = <<>>

\* No FIFOBuff_TS exists.
TSOff ==
  /\ mutex = Unlocked
  /\ add_sem = 0
  /\ rem_sem = 0
  /\ pc = <<>>
  /\ opn = <<>>
  /\ arg_item = <<>>
  /\ arg_pitem = <<>>
  /\ ret = <<>>
  /\ net_done = 0

\* ------------------------------------ single-threaded use (Spec)
Init ==
  /\ \E c \in 1 .. MaxCap : FIFOBuff(c)
  /\ count = 0
  /\ x = [c \in Callers |-> NoObj]
  /\ rv = FALSE
  /\ op = "new"
  /\ absq = <<>>
  /\ nadded = 0
  /\ nremoved = 0
  /\ WrapOff
  /\ TSOff
  /\ DrvOff

\* fb.add(item)
Add ==
  /\ ~destroyed
  /\ nadded < MaxAdds
  /\ \E item \in Values :
       /\ add(item)
       /\ absq' = IF rv' THEN Append(absq, item) ELSE absq
  /\ op' = "add"
  /\ nadded' = IF rv' THEN nadded + 1 ELSE nadded
  /\ UNCHANGED <<destroyed, x, nremoved, wrapv, tsv, drv>>

\* fb.remove(nullptr) and fb.remove(&tmp)
Remove ==
  /\ ~destroyed
  /\ \E pitem \in {nullptr, Main} :
       /\ remove(pitem)
       /\ op' = IF pitem = nullptr THEN "remove_null" ELSE "remove"
  /\ absq' = IF rv' THEN Tail(absq) ELSE absq
  /\ nremoved' = IF rv' THEN nremoved + 1 ELSE nremoved
  /\ UNCHANGED <<destroyed, nadded, wrapv, tsv, drv>>

\* fb.peek(&tmp)
Peek ==
  /\ ~destroyed
  /\ peek(Main)
  /\ op' = "peek"
  /\ UNCHANGED <<destroyed, absq, nadded, nremoved, wrapv, tsv, drv>>

\* delete pfb
Delete ==
  /\ ~destroyed
  /\ Destructor
  /\ op' = "delete"
  /\ UNCHANGED <<x, rv, absq, nadded, nremoved, wrapv, tsv, drv>>

Next == Add \/ Remove \/ Peek \/ Delete

Spec == Init /\ [][Next]_vars

\* ------------------------- TEST(FIFOBuffTest, wrap), for every CAP and k
\* The test removes k = CAP/2 elements; here k is any number below CAP.
WrapInit ==
  /\ \E c \in 1 .. WrapMaxCap :
       /\ FIFOBuff(c)
       /\ wrap_k \in 0 .. c - 1
  /\ wrap_pc = "add_first"
  /\ wrap_i = 0
  /\ wrap_got = <<>>
  /\ count = 0
  /\ x = [c \in Callers |-> NoObj]
  /\ rv = FALSE
  /\ op = "new"
  /\ absq = <<>>
  /\ nadded = 0
  /\ nremoved = 0
  /\ TSOff
  /\ DrvOff

\* for (i = 0; i < CAP; i++) fb.add(i);   lines 53-55
WrapAddFirst ==
  /\ wrap_pc = "add_first" /\ wrap_i < fifo_cap
  /\ add(wrap_i)
  /\ nadded' = IF rv' THEN nadded + 1 ELSE nadded
  /\ wrap_i' = wrap_i + 1
  /\ op' = "add"
  /\ UNCHANGED <<destroyed, x, absq, nremoved, wrap_pc, wrap_k, wrap_got,
                 tsv, drv>>

\* for (i = 0; i < k; i++) fb.remove(nullptr);   lines 58-60
WrapRemoveNull ==
  /\ wrap_pc = "remove_null" /\ wrap_i < wrap_k
  /\ remove(nullptr)
  /\ nremoved' = IF rv' THEN nremoved + 1 ELSE nremoved
  /\ wrap_i' = wrap_i + 1
  /\ op' = "remove_null"
  /\ UNCHANGED <<destroyed, absq, nadded, wrap_pc, wrap_k, wrap_got, tsv,
                 drv>>

\* for (i = 0; i < k; i++) fb.add(CAP + i);   lines 63-65
WrapAddMore ==
  /\ wrap_pc = "add_more" /\ wrap_i < wrap_k
  /\ add(fifo_cap + wrap_i)
  /\ nadded' = IF rv' THEN nadded + 1 ELSE nadded
  /\ wrap_i' = wrap_i + 1
  /\ op' = "add"
  /\ UNCHANGED <<destroyed, x, absq, nremoved, wrap_pc, wrap_k, wrap_got,
                 tsv, drv>>

\* for (i = 0; i < CAP; i++) { fb.remove(&tmp); ... }   lines 68-71
WrapDrain ==
  /\ wrap_pc = "drain" /\ wrap_i < fifo_cap
  /\ remove(Main)
  /\ nremoved' = IF rv' THEN nremoved + 1 ELSE nremoved
  /\ wrap_got' = Append(wrap_got, x'[Main])
  /\ wrap_i' = wrap_i + 1
  /\ op' = "remove"
  /\ UNCHANGED <<destroyed, absq, nadded, wrap_pc, wrap_k, tsv, drv>>

\* A for loop ends: its condition is false, the next loop starts at i = 0.
WrapLoopEnd ==
  /\ \/ wrap_pc = "add_first" /\ wrap_i = fifo_cap /\ wrap_pc' = "remove_null"
     \/ wrap_pc = "remove_null" /\ wrap_i = wrap_k /\ wrap_pc' = "add_more"
     \/ wrap_pc = "add_more" /\ wrap_i = wrap_k /\ wrap_pc' = "drain"
     \/ wrap_pc = "drain" /\ wrap_i = fifo_cap /\ wrap_pc' = "done"
  /\ wrap_i' = 0
  /\ UNCHANGED <<buffer, head, tail, fifo_size, fifo_cap, destroyed, count,
                 x, rv, op, absq, nadded, nremoved, wrap_k, wrap_got, tsv,
                 drv>>

WrapNext ==
  WrapAddFirst \/ WrapRemoveNull \/ WrapAddMore \/ WrapDrain \/ WrapLoopEnd

WrapSpec == WrapInit /\ [][WrapNext]_vars

\* ---------------------------------------------------------- FIFOBuff_TS
\* What no FIFOBuff_TS step changes.
tsframe == UNCHANGED <<op, nadded, nremoved, destroyed, wrapv>>

\* The calls completed so far stay as they are.
nocall == UNCHANGED net_done

\* init() with the removal semaphore created with one permit.
init_rem_sem_one ==
  /\ add_sem = capacity
  /\ rem_sem = 1
  /\ mutex = Unlocked

\* init() with one permit too many on the insertion semaphore.
init_add_sem_extra ==
  /\ add_sem = capacity + 1
  /\ rem_sem = 0
  /\ mutex = Unlocked

\* FIFOBuff_TS::init(), lines 173-179.
init ==
  /\ add_sem = capacity
  /\ rem_sem = 0
  /\ mutex = Unlocked

\* FIFOBuff_TS(size_t max_cap), lines 185-187.
FIFOBuff_TS(max_cap) ==
  /\ FIFOBuff(max_cap)
  /\ init

\* The threads in thr exist and are in no FIFOBuff_TS call.
ThreadsIdle(thr) ==
  /\ pc = [t \in thr |-> "idle"]
  /\ opn = [t \in thr |-> "none"]
  /\ arg_item = [t \in thr |-> NoObj]
  /\ arg_pitem = [t \in thr |-> nullptr]
  /\ ret = [t \in thr |-> FALSE]
  /\ net_done = 0
  /\ x = [t \in thr |-> NoObj]

\* Thread t has taken a permit of the semaphore and goes on to the mutex.
Proceed(t, name, v, p) ==
  /\ pc' = [pc EXCEPT ![t] = "lock"]
  /\ opn' = [opn EXCEPT ![t] = name]
  /\ arg_item' = [arg_item EXCEPT ![t] = v]
  /\ arg_pitem' = [arg_pitem EXCEPT ![t] = p]

\* Thread t enters a call whose first statement may block.
Enter(t, name, v, p) ==
  /\ pc[t] = "idle"
  /\ pc' = [pc EXCEPT ![t] = IF name = "peek" THEN "lock" ELSE "sem_wait"]
  /\ opn' = [opn EXCEPT ![t] = name]
  /\ arg_item' = [arg_item EXCEPT ![t] = v]
  /\ arg_pitem' = [arg_pitem EXCEPT ![t] = p]
  /\ UNCHANGED <<mutex, add_sem, rem_sem, buffer, head, tail, fifo_size,
                 fifo_cap, count, x, rv, absq>>
  /\ tsframe
  /\ nocall

\* add going on to the buffer whatever sem_trywait returned.
add_trywait_unchecked(t, v) ==
  /\ pc[t] = "idle"
  /\ add_sem' = IF add_sem > 0 THEN add_sem - 1 ELSE add_sem
  /\ Proceed(t, "add", v, nullptr)
  /\ UNCHANGED <<ret, mutex, rem_sem, buffer, head, tail, fifo_size, fifo_cap,
                 count, x, rv, absq>>
  /\ tsframe
  /\ nocall

\* add trying rem_sem instead of add_sem.
add_trywait_wrong_sem(t, v) ==
  /\ pc[t] = "idle"
  /\ IF rem_sem > 0
     THEN /\ rem_sem' = rem_sem - 1
          /\ Proceed(t, "add", v, nullptr)
          /\ UNCHANGED ret
     ELSE /\ ret' = [ret EXCEPT ![t] = FALSE]
          /\ opn' = [opn EXCEPT ![t] = "add"]
          /\ UNCHANGED <<rem_sem, pc, arg_item, arg_pitem>>
  /\ UNCHANGED <<mutex, add_sem, buffer, head, tail, fifo_size, fifo_cap,
                 count, x, rv, absq>>
  /\ tsframe
  /\ nocall

\* FIFOBuff_TS::add, lines 206-207 and 216-218: sem_trywait(add_sem); with
\* no permit the call returns false.
add_trywait(t, v) ==
  /\ pc[t] = "idle"
  /\ IF add_sem > 0
     THEN /\ add_sem' = add_sem - 1
          /\ Proceed(t, "add", v, nullptr)
          /\ UNCHANGED ret
     ELSE /\ ret' = [ret EXCEPT ![t] = FALSE]
          /\ opn' = [opn EXCEPT ![t] = "add"]
          /\ UNCHANGED <<add_sem, pc, arg_item, arg_pitem>>
  /\ UNCHANGED <<mutex, rem_sem, buffer, head, tail, fifo_size, fifo_cap,
                 count, x, rv, absq>>
  /\ tsframe
  /\ nocall

\* remove going on whatever sem_trywait(rem_sem) returned.
remove_trywait_unchecked(t, p) ==
  /\ pc[t] = "idle"
  /\ rem_sem' = IF rem_sem > 0 THEN rem_sem - 1 ELSE rem_sem
  /\ Proceed(t, "remove", NoObj, p)
  /\ UNCHANGED <<ret, mutex, add_sem, buffer, head, tail, fifo_size, fifo_cap,
                 count, x, rv, absq>>
  /\ tsframe
  /\ nocall

\* FIFOBuff_TS::remove, lines 256-257 and 266-268: sem_trywait(rem_sem).
remove_trywait(t, p) ==
  /\ pc[t] = "idle"
  /\ IF rem_sem > 0
     THEN /\ rem_sem' = rem_sem - 1
          /\ Proceed(t, "remove", NoObj, p)
          /\ UNCHANGED ret
     ELSE /\ ret' = [ret EXCEPT ![t] = FALSE]
          /\ opn' = [opn EXCEPT ![t] = "remove"]
          /\ UNCHANGED <<rem_sem, pc, arg_item, arg_pitem>>
  /\ UNCHANGED <<mutex, add_sem, buffer, head, tail, fifo_size, fifo_cap,
                 count, x, rv, absq>>
  /\ tsframe
  /\ nocall

\* FIFOBuff_TS::add_wait is called, line 225.
add_wait_enter(t, v) ==
  /\ Enter(t, "add_wait", v, nullptr)
  /\ UNCHANGED ret

\* FIFOBuff_TS::remove_wait is called, line 275.
remove_wait_enter(t, p) ==
  /\ Enter(t, "remove_wait", NoObj, p)
  /\ UNCHANGED ret

\* FIFOBuff_TS::peek is called, lines 238-239: peek_ok = false.
peek_enter(t, p) ==
  /\ Enter(t, "peek", NoObj, p)
  /\ ret' = [ret EXCEPT ![t] = FALSE]

\* sem_wait(add_sem), line 226, and sem_wait(rem_sem), line 276: returns
\* once it has taken a permit.
sem_wait(t) ==
  /\ pc[t] = "sem_wait"
  /\ IF opn[t] = "add_wait"
     THEN add_sem > 0 /\ add_sem' = add_sem - 1 /\ UNCHANGED rem_sem
     ELSE rem_sem > 0 /\ rem_sem' = rem_sem - 1 /\ UNCHANGED add_sem
  /\ pc' = [pc EXCEPT ![t] = "lock"]
  /\ UNCHANGED <<mutex, opn, arg_item, arg_pitem, ret, buffer, head, tail,
                 fifo_size, fifo_cap, count, x, rv, absq>>
  /\ tsframe
  /\ nocall

\* The lock taken without waiting for the thread that holds it.
mutex_lock_no_wait(t) ==
  /\ pc[t] = "lock"
  /\ mutex' = t
  /\ pc' = [pc EXCEPT ![t] = "fifo"]
  /\ UNCHANGED <<add_sem, rem_sem, opn, arg_item, arg_pitem, ret, buffer,
                 head, tail, fifo_size, fifo_cap, count, x, rv, absq>>
  /\ tsframe
  /\ nocall

\* pthread_mutex_lock(&mutex), lines 208, 228, 241, 258, 278.
mutex_lock(t) ==
  /\ pc[t] = "lock"
  /\ mutex = Unlocked
  /\ mutex' = t
  /\ pc' = [pc EXCEPT ![t] = "fifo"]
  /\ UNCHANGED <<add_sem, rem_sem, opn, arg_item, arg_pitem, ret, buffer,
                 head, tail, fifo_size, fifo_cap, count, x, rv, absq>>
  /\ tsframe
  /\ nocall

\* fifo.add(item), lines 209 and 229.
fifo_add(t) ==
  /\ pc[t] = "fifo" /\ opn[t] \in {"add", "add_wait"}
  /\ add(arg_item[t])
  /\ absq' = IF rv' THEN Append(absq, arg_item[t]) ELSE absq
  /\ pc' = [pc EXCEPT ![t] = "unlock"]
  /\ arg_item' = [arg_item EXCEPT ![t] = NoObj]
  /\ UNCHANGED <<mutex, add_sem, rem_sem, opn, arg_pitem, ret, x>>
  /\ tsframe
  /\ nocall

\* fifo.remove(pitem), lines 259 and 279.
fifo_remove(t) ==
  /\ pc[t] = "fifo" /\ opn[t] \in {"remove", "remove_wait"}
  /\ remove(arg_pitem[t])
  /\ absq' = IF rv' THEN Tail(absq) ELSE absq
  /\ pc' = [pc EXCEPT ![t] = "unlock"]
  /\ arg_pitem' = [arg_pitem EXCEPT ![t] = nullptr]
  /\ UNCHANGED <<mutex, add_sem, rem_sem, opn, arg_item, ret>>
  /\ tsframe
  /\ nocall

\* peek calling fifo.peek without the test of fifo.size().
fifo_peek_no_size_test(t) ==
  /\ pc[t] = "fifo" /\ opn[t] = "peek"
  /\ ret' = [ret EXCEPT ![t] = TRUE]
  /\ peek(arg_pitem[t])
  /\ pc' = [pc EXCEPT ![t] = "unlock"]
  /\ arg_pitem' = [arg_pitem EXCEPT ![t] = nullptr]
  /\ UNCHANGED <<mutex, add_sem, rem_sem, opn, arg_item, absq>>
  /\ tsframe
  /\ nocall

\* FIFOBuff_TS::peek, lines 243-246.
fifo_peek(t) ==
  /\ pc[t] = "fifo" /\ opn[t] = "peek"
  /\ IF size > 0
     THEN /\ ret' = [ret EXCEPT ![t] = TRUE]
          /\ peek(arg_pitem[t])
     ELSE UNCHANGED <<ret, buffer, head, tail, fifo_size, fifo_cap, count,
                      x, rv>>
  /\ pc' = [pc EXCEPT ![t] = "unlock"]
  /\ arg_pitem' = [arg_pitem EXCEPT ![t] = nullptr]
  /\ UNCHANGED <<mutex, add_sem, rem_sem, opn, arg_item, absq>>
  /\ tsframe
  /\ nocall

\* The call goes on to sem_post without having unlocked the mutex.
mutex_unlock_forgotten(t) ==
  /\ pc[t] = "unlock"
  /\ pc' = [pc EXCEPT ![t] = IF opn[t] = "peek" THEN "idle" ELSE "post"]
  /\ UNCHANGED <<mutex, opn, add_sem, rem_sem, arg_item, arg_pitem, ret,
                 buffer, head, tail, fifo_size, fifo_cap, count, rv, absq>>
  /\ tsframe
  /\ nocall

\* pthread_mutex_unlock(&mutex), lines 210, 230, 260, 280; in peek, lines
\* 248-250, the call then returns peek_ok.
mutex_unlock(t) ==
  /\ pc[t] = "unlock"
  /\ mutex' = Unlocked
  /\ pc' = [pc EXCEPT ![t] = IF opn[t] = "peek" THEN "idle" ELSE "post"]
  /\ UNCHANGED <<opn, add_sem, rem_sem, arg_item, arg_pitem, ret, buffer, head,
                 tail, fifo_size, fifo_cap, count, rv, absq>>
  /\ tsframe
  /\ nocall

\* sem_post on the semaphore the call has waited on.
PostSemaphores_same(t) ==
  IF opn[t] \in {"add", "add_wait"}
  THEN add_sem' = add_sem + 1 /\ UNCHANGED rem_sem
  ELSE rem_sem' = rem_sem + 1 /\ UNCHANGED add_sem

\* sem_post left out.
PostSemaphores_forgotten(t) == UNCHANGED <<add_sem, rem_sem>>

\* The sem_post of lines 212, 232 (rem_sem) and 262, 282 (add_sem).
PostSemaphores(t) ==
  IF opn[t] \in {"add", "add_wait"}
  THEN rem_sem' = rem_sem + 1 /\ UNCHANGED add_sem
  ELSE add_sem' = add_sem + 1 /\ UNCHANGED rem_sem

\* sem_post and return, lines 212-214, 232-233, 262-264, 282-283.
sem_post(t) ==
  /\ pc[t] = "post"
  /\ PostSemaphores(t)
  /\ ret' = [ret EXCEPT
              ![t] = IF opn[t] \in {"add", "remove"} THEN TRUE ELSE @]
  /\ pc' = [pc EXCEPT ![t] = "idle"]
  /\ UNCHANGED <<opn, mutex, arg_item, arg_pitem, buffer, head, tail, fifo_size,
                 fifo_cap, count, rv, absq>>
  /\ tsframe
  /\ net_done' = IF opn[t] \in {"add", "add_wait"}
                  THEN net_done + 1 ELSE net_done - 1

\* --------------------- threads calling FIFOBuff_TS at will (TSSpec)
TSInit ==
  /\ \E c \in 1 .. TSMaxCap : FIFOBuff_TS(c)
  /\ ThreadsIdle(Threads)
  /\ count = 0
  /\ rv = FALSE
  /\ op = "new"
  /\ absq = <<>>
  /\ nadded = 0
  /\ nremoved = 0
  /\ WrapOff
  /\ DrvOff

\* The caller's out variable ('tmp') goes out of scope after the call.
Forget(t) == x' = [x EXCEPT ![t] = NoObj]

TSAdd ==
  /\ \E t \in Threads, v \in Values : add_trywait(t, v)
  /\ UNCHANGED drv

TSAddWait ==
  /\ \E t \in Threads, v \in Values : add_wait_enter(t, v)
  /\ UNCHANGED drv

TSRemove ==
  /\ \E t \in Threads : \E p \in {nullptr, t} : remove_trywait(t, p)
  /\ UNCHANGED drv

TSRemoveWait ==
  /\ \E t \in Threads : \E p \in {nullptr, t} : remove_wait_enter(t, p)
  /\ UNCHANGED drv

TSPeek ==
  /\ \E t \in Threads : peek_enter(t, t)
  /\ UNCHANGED drv

TSSemWait ==
  /\ \E t \in Threads : sem_wait(t)
  /\ UNCHANGED drv

TSLock ==
  /\ \E t \in Threads : mutex_lock(t)
  /\ UNCHANGED drv

TSFifoAdd ==
  /\ \E t \in Threads : fifo_add(t)
  /\ UNCHANGED drv

TSFifoRemove ==
  /\ \E t \in Threads : fifo_remove(t)
  /\ UNCHANGED drv

TSFifoPeek ==
  /\ \E t \in Threads : fifo_peek(t)
  /\ UNCHANGED drv

TSUnlock ==
  /\ \E t \in Threads :
       /\ mutex_unlock(t)
       /\ IF opn[t] = "peek" THEN Forget(t) ELSE UNCHANGED x
  /\ UNCHANGED drv

TSPost ==
  /\ \E t \in Threads : sem_post(t) /\ Forget(t)
  /\ UNCHANGED drv

TSNext ==
  \/ TSAdd \/ TSAddWait \/ TSRemove \/ TSRemoveWait \/ TSPeek
  \/ TSSemWait \/ TSLock \/ TSFifoAdd \/ TSFifoRemove \/ TSFifoPeek
  \/ TSUnlock \/ TSPost

TSSpec == TSInit /\ [][TSNext]_vars

\* ------------------------------------ TEST(FIFOBuffTest, threaded)
\* The test's main thread is the only producer; here the products are
\* handed out among NumProducers producer threads, and the sentinels are
\* added once every product has been added.
liveframe == UNCHANGED <<quota_add, quota_rem, made_add, made_rem>>

ThreadedInit ==
  /\ \E c \in 1 .. TSMaxCap : FIFOBuff_TS(c)
  /\ ThreadsIdle(Producers \cup Consumers)
  /\ check = [i \in 0 .. NumProducts - 1 |-> 0]
  /\ next_item = 0
  /\ poisons = 0
  /\ quota_add = <<>>
  /\ quota_rem = <<>>
  /\ made_add = <<>>
  /\ made_rem = <<>>
  /\ count = 0
  /\ rv = FALSE
  /\ op = "new"
  /\ absq = <<>>
  /\ nadded = 0
  /\ nremoved = 0
  /\ WrapOff

\* for (i = 0; i < PRODUCTS; i++) pfb->add_wait(i);   lines 167-169
Produce ==
  /\ next_item < NumProducts
  /\ \E t \in Producers : add_wait_enter(t, next_item)
  /\ next_item' = next_item + 1
  /\ UNCHANGED <<check, poisons>>
  /\ liveframe

\* for (i = 0; i < NUM_CONSUMERS; i++) pfb->add_wait(POISON);  lines 174-176
Poison ==
  /\ next_item = NumProducts
  /\ poisons < NumConsumers
  /\ poisons = 0 => \A q \in Producers : pc[q] = "idle"
  /\ \E t \in Producers : add_wait_enter(t, POISON)
  /\ poisons' = poisons + 1
  /\ UNCHANGED <<check, next_item>>
  /\ liveframe

\* consumer: pfb->remove_wait(&i);   line 137
Consume ==
  /\ \E t \in Consumers : x[t] = NoObj /\ remove_wait_enter(t, t)
  /\ UNCHANGED drv

\* consumer: if (i != POISON) check[i]++; while (i != POISON);  lines 144-149
ConsumerCheck ==
  /\ \E t \in Consumers :
       /\ pc[t] = "idle" /\ x[t] # NoObj
       /\ check' = IF x[t] \in DOMAIN check
                    THEN [check EXCEPT ![x[t]] = @ + 1] ELSE check
       /\ pc' = [pc EXCEPT ![t] = IF x[t] = POISON THEN "done" ELSE "idle"]
       /\ Forget(t)
  /\ UNCHANGED <<buffer, head, tail, fifo_size, fifo_cap, count, rv, absq,
                 mutex, add_sem, rem_sem, opn, arg_item, arg_pitem, ret,
                 next_item, poisons>>
  /\ liveframe
  /\ tsframe
  /\ nocall

\* The steps inside add_wait and remove_wait, by any thread.
ThreadedSemWait ==
  /\ \E t \in DOMAIN pc : sem_wait(t)
  /\ UNCHANGED drv

ThreadedLock ==
  /\ \E t \in DOMAIN pc : mutex_lock(t)
  /\ UNCHANGED drv

ThreadedFifoAdd ==
  /\ \E t \in DOMAIN pc : fifo_add(t)
  /\ UNCHANGED drv

ThreadedFifoRemove ==
  /\ \E t \in DOMAIN pc : fifo_remove(t)
  /\ UNCHANGED drv

ThreadedUnlock ==
  /\ \E t \in DOMAIN pc : mutex_unlock(t)
  /\ UNCHANGED <<x, drv>>

ThreadedPost ==
  /\ \E t \in DOMAIN pc : sem_post(t)
  /\ UNCHANGED <<x, drv>>

ThreadedNext ==
  \/ Produce \/ Poison \/ Consume \/ ConsumerCheck
  \/ ThreadedSemWait \/ ThreadedLock \/ ThreadedFifoAdd
  \/ ThreadedFifoRemove \/ ThreadedUnlock \/ ThreadedPost

ThreadedSpec == ThreadedInit /\ [][ThreadedNext]_vars

\* pthread_join of every consumer has returned, lines 179-181.
AllJoined == \A t \in Consumers : pc[t] = "done"

\* ------------------- threads making blocking calls only (LiveSpec)
\* Every thread is given a number of add_wait and of remove_wait calls; the
\* two totals are equal.  A thread given both kinds makes them in any order.
testframe == UNCHANGED <<check, next_item, poisons>>

RECURSIVE Total(_, _)
Total(f, S) ==
  IF S = {} THEN 0
  ELSE LET t == CHOOSE u \in S : TRUE IN f[t] + Total(f, S \ {t})

LiveInit ==
  /\ \E c \in 1 .. TSMaxCap : FIFOBuff_TS(c)
  /\ ThreadsIdle(Threads)
  /\ quota_add \in [Threads -> 0 .. MaxCalls]
  /\ quota_rem \in [Threads -> 0 .. MaxCalls]
  /\ Total(quota_add, Threads) = Total(quota_rem, Threads)
  /\ Total(quota_add, Threads) >= 1
  /\ made_add = [t \in Threads |-> 0]
  /\ made_rem = [t \in Threads |-> 0]
  /\ check = <<>>
  /\ next_item = 0
  /\ poisons = 0
  /\ count = 0
  /\ rv = FALSE
  /\ op = "new"
  /\ absq = <<>>
  /\ nadded = 0
  /\ nremoved = 0
  /\ WrapOff

LiveAddWait(t) ==
  /\ made_add[t] < quota_add[t]
  /\ \E v \in Values : add_wait_enter(t, v)
  /\ made_add' = [made_add EXCEPT ![t] = @ + 1]
  /\ UNCHANGED <<quota_add, quota_rem, made_rem>>
  /\ testframe

LiveRemoveWait(t) ==
  /\ made_rem[t] < quota_rem[t]
  /\ remove_wait_enter(t, t)
  /\ made_rem' = [made_rem EXCEPT ![t] = @ + 1]
  /\ UNCHANGED <<quota_add, quota_rem, made_add>>
  /\ testframe

LiveSemWait(t) == sem_wait(t) /\ UNCHANGED drv

LiveLock(t) == mutex_lock(t) /\ UNCHANGED drv

LiveFifoAdd(t) == fifo_add(t) /\ UNCHANGED drv

LiveFifoRemove(t) == fifo_remove(t) /\ UNCHANGED drv

LiveUnlock(t) == mutex_unlock(t) /\ UNCHANGED <<x, drv>>

LivePost(t) == sem_post(t) /\ Forget(t) /\ UNCHANGED drv

\* The steps of thread t.
LiveThread(t) ==
  \/ LiveAddWait(t) \/ LiveRemoveWait(t) \/ LiveSemWait(t) \/ LiveLock(t)
  \/ LiveFifoAdd(t) \/ LiveFifoRemove(t) \/ LiveUnlock(t) \/ LivePost(t)

LiveNext == \E t \in Threads : LiveThread(t)

\* Fair scheduling: a thread that can take a step is not suspended forever.
LiveSpec ==
  /\ LiveInit
  /\ [][LiveNext]_vars
  /\ \A t \in Threads : WF_vars(LiveThread(t))

\* Thread t waits in sem_wait on a semaphore whose value is 0.
Blocked(t) ==
  /\ pc[t] = "sem_wait"
  /\ IF opn[t] = "add_wait" THEN add_sem = 0 ELSE rem_sem = 0

\* Thread t has made and completed all its calls.
Finished(t) ==
  /\ pc[t] = "idle"
  /\ made_add[t] = quota_add[t]
  /\ made_rem[t] = quota_rem[t]

AllDone == \A t \in DOMAIN pc : Finished(t)

\* Every thread that still has something to do is blocked.
Deadlocked ==
  /\ \A t \in DOMAIN pc : Blocked(t) \/ Finished(t)
  /\ \E t \in DOMAIN pc : Blocked(t)

\* Every thread makes add_wait calls only or remove_wait calls only.
Dedicated == \A t \in DOMAIN pc : quota_add[t] = 0 \/ quota_rem[t] = 0

\* ------------------------------------------------------------ claims
\* C1: add returns true iff count < capacity at the call, and a failing add
\* leaves head, tail, count and the stored elements unchanged; on a fresh
\* buffer of capacity C the first C adds return true and the (C+1)th
\* returns false and changes nothing.
C1_AddContract ==
  [][ op' = "add" =>
        /\ rv' = (fifo_size < fifo_cap)
        /\ (~rv' => UNCHANGED <<buffer, head, tail, fifo_size, fifo_cap>>)
        /\ (nremoved = 0 /\ nadded < fifo_cap => rv')
        /\ (nremoved = 0 /\ nadded = fifo_cap =>
              ~rv' /\ UNCHANGED <<buffer, head, tail, fifo_size, fifo_cap>>)
    ]_vars

\* The (C+1)th add on a fresh buffer of capacity C >= 2 has just failed.
C1_Witness ==
  /\ op = "add" /\ ~rv
  /\ nremoved = 0 /\ nadded = fifo_cap /\ fifo_cap >= 2

\* C2: the buffer behaves as the abstract bounded FIFO sequence: its
\* contents from head are the abstract sequence, never longer than the
\* capacity, and every successful remove(&x) copies out the front of the
\* abstract sequence (the k-th successful remove yields the k-th added).
C2_FifoRefinement ==
  /\ [](~destroyed => Contents = absq /\ Len(absq) <= fifo_cap)
  /\ [][ op' = "remove" /\ rv' => x'[Main] = Head(absq) ]_vars

\* A remove(&x) succeeded after the indices wrapped, with elements left.
C2_Witness ==
  /\ op = "remove" /\ rv /\ ~destroyed
  /\ nremoved >= 2 /\ nadded > fifo_cap /\ fifo_size >= 1 /\ tail < head

\* C6: on a non-empty buffer peek(&x) returns true and copies into x the
\* oldest element, the one at head that the next remove would copy out.
C6_PeekReadsHead ==
  (op = "peek" /\ fifo_size > 0) =>
     (rv /\ x[Main] = buffer[head] /\ x[Main] = Head(absq))

\* C7: once the container is destroyed, every element it constructed has
\* been finalized (by remove or by the destructor): the live-instance count
\* is back at its baseline.
C7_Lifecycle == destroyed => count = 0

\* N >= 2 elements added, 0 < M < N of them removed, container destroyed.
C7_Witness ==
  /\ destroyed /\ op = "delete"
  /\ nadded >= 2 /\ nremoved >= 1 /\ nremoved < nadded

\* C9: on an empty buffer remove(nullptr), remove(&x) and peek(&x) return
\* false and leave head, tail, count, the storage and x unchanged.
C9_EmptyFails ==
  [][ (fifo_size = 0 /\ op' \in {"remove", "remove_null", "peek"}) =>
        (~rv' /\ UNCHANGED <<buffer, head, tail, fifo_size, fifo_cap, x>>)
    ]_vars

\* A remove or peek has just failed on a buffer emptied by removes.
C9_Witness ==
  /\ op \in {"remove", "remove_null", "peek"} /\ ~rv
  /\ fifo_size = 0 /\ nadded >= 1 /\ nremoved = nadded

\* C10: wrap-around.  For every capacity C and k < C: after adding 0..C-1,
\* removing k with a null out-slot and adding C..C+k-1, every add has
\* succeeded and C calls of remove(&x) yield k, k+1, ..., C+k-1 in that
\* order and leave the buffer empty.
C10_Wrap ==
  /\ \A j \in 1 .. Len(wrap_got) : wrap_got[j] = wrap_k + j - 1
  /\ (wrap_pc \in {"add_first", "add_more"} /\ wrap_i > 0 => rv)
  /\ (wrap_pc = "drain" =>
        nadded = fifo_cap + wrap_k /\ nremoved = wrap_k + wrap_i)
  /\ (wrap_pc = "done" =>
        /\ Len(wrap_got) = fifo_cap
        /\ nadded = fifo_cap + wrap_k
        /\ nremoved = fifo_cap + wrap_k
        /\ fifo_size = 0)

\* The test has run to its end with a real wrap (k >= 1, capacity >= 3).
C10_Witness ==
  /\ wrap_pc = "done" /\ wrap_k >= 1 /\ fifo_cap >= 3
  /\ Len(wrap_got) = fifo_cap /\ wrap_got[fifo_cap] = fifo_cap + wrap_k - 1

\* Threads that hold a permit taken in add, add_wait, remove or remove_wait
\* and have not yet posted the complementary semaphore.
InFlight ==
  {t \in DOMAIN pc : pc[t] \in {"lock", "fifo", "unlock", "post"}
                      /\ opn[t] # "peek"}

\* C4: add_sem + rem_sem + (threads holding a permit and not yet posted)
\* equals the capacity in every reachable state, so the two semaphores sum
\* to the capacity whenever no add or remove is in flight, and each
\* semaphore stays within 0..capacity.
C4_PermitConservation ==
  /\ add_sem + rem_sem + Cardinality(InFlight) = fifo_cap
  /\ add_sem \in 0 .. fifo_cap
  /\ rem_sem \in 0 .. fifo_cap
  /\ (InFlight = {} => add_sem + rem_sem = fifo_cap)

\* One thread is between unlock and post while a filled permit is available.
C4_Witness ==
  /\ \E t \in InFlight : pc[t] = "post"
  /\ rem_sem >= 1 /\ fifo_cap >= 2

\* C8: a non-blocking add finding no free permit, and a non-blocking remove
\* finding no filled permit, return false in that very step (no wait on a
\* semaphore) and change neither the buffer contents, head, tail, count nor
\* either semaphore; a full buffer has no free permit and an empty buffer
\* has no filled permit.
C8_NonBlockingFail ==
  /\ [][ \A t \in DOMAIN pc :
          /\ (add_sem = 0 /\ \E v \in Values : add_trywait(t, v)) =>
                /\ ret'[t] = FALSE /\ pc'[t] = "idle"
                /\ UNCHANGED <<buffer, head, tail, fifo_size, add_sem, rem_sem>>
          /\ (rem_sem = 0 /\ \E p \in {nullptr, t} : remove_trywait(t, p)) =>
                /\ ret'[t] = FALSE /\ pc'[t] = "idle"
                /\ UNCHANGED <<buffer, head, tail, fifo_size, add_sem, rem_sem>>
       ]_vars
  /\ [](fifo_size = fifo_cap => add_sem = 0)
  /\ [](fifo_size = 0 => rem_sem = 0)

\* The buffer is full with no free permit; the last add of one thread and
\* the last remove of another have returned false.
C8_Witness ==
  /\ \E t \in DOMAIN pc : pc[t] = "idle" /\ opn[t] = "add" /\ ~ret[t]
  /\ \E t \in DOMAIN pc : pc[t] = "idle" /\ opn[t] = "remove" /\ ~ret[t]
  /\ fifo_size = fifo_cap /\ add_sem = 0

\* C3: in the threaded test every non-sentinel item is delivered to exactly
\* one consumer exactly once: no item is ever counted twice, and once every
\* consumer has read its sentinel every item has been counted once.
C3_ExactlyOnce ==
  /\ \A i \in DOMAIN check : check[i] <= 1
  /\ (AllJoined => \A i \in DOMAIN check : check[i] = 1)

\* All consumers have read a sentinel and exited, all products were added.
C3_Witness ==
  /\ DOMAIN check # {} /\ AllJoined
  /\ next_item = NumProducts /\ poisons = NumConsumers
  /\ \A t \in Producers : pc[t] = "idle"

NoCallInFlight ==
  \A t \in DOMAIN pc : pc[t] = "idle" \/ opn[t] = "peek"

\* C11: in every reachable state of a FIFOBuff_TS in which no add or remove
\* is in flight and as many successful adds as successful removes have
\* completed, the queue is empty: the wrapped count is 0, rem_sem is 0,
\* add_sem equals the capacity, and a peek that reads the buffer in such a
\* state returns false.
C11_BalancedIsEmpty ==
  /\ []((NoCallInFlight /\ net_done = 0) =>
            /\ fifo_size = 0
            /\ rem_sem = 0
            /\ add_sem = fifo_cap)
  /\ [][ \A t \in DOMAIN pc :
          (NoCallInFlight /\ net_done = 0 /\ fifo_peek(t)) =>
              /\ ret'[t] = FALSE
              /\ x'[t] = x[t]
       ]_vars

\* An element went through a two-slot queue, every call has returned, and a
\* peek made afterwards has returned false.
C11_Witness ==
  /\ NoCallInFlight /\ net_done = 0
  /\ fifo_cap = 2 /\ head = 1
  /\ \E t \in DOMAIN pc :
        /\ pc[t] = "idle" /\ opn[t] = "peek" /\ ret[t] = FALSE
        /\ \E u \in DOMAIN pc \ {t} :
              pc[u] = "idle" /\ opn[u] \in {"remove", "remove_wait"} /\ ret[u]

\* C12: under any interleaving of FIFOBuff_TS calls, the values copied out
\* by removes, taken in the order of their critical sections, are a prefix
\* of the values inserted, taken in the order of the adds' critical
\* sections: every insertion goes to the back of the elements not yet
\* removed and every removal takes, and copies out, the oldest of them.
C12_FifoOrder ==
  /\ [](Contents = absq)
  /\ [][ \A t \in DOMAIN pc :
          /\ fifo_add(t) => absq' = Append(absq, arg_item[t])
          /\ fifo_remove(t) =>
               /\ absq # <<>>
               /\ absq' = Tail(absq)
               /\ arg_pitem[t] # nullptr => x'[t] = Head(absq)
       ]_vars

\* A remover has just copied out the older of two different elements and the
\* younger one is still queued.
C12_Witness ==
  \E t \in DOMAIN pc :
    /\ pc[t] = "unlock" /\ opn[t] \in {"remove", "remove_wait"}
    /\ x[t] \in Values
    /\ absq # <<>> /\ absq[1] # x[t]
    /\ head = 1

\* Threads inside a section between pthread_mutex_lock and
\* pthread_mutex_unlock.
InSection == {t \in DOMAIN pc : pc[t] \in {"fifo", "unlock"}}

\* C13: the wrapped buffer is read or changed only by a thread that holds
\* the mutex, and at most one thread is inside a mutex-protected section
\* (around fifo.add, fifo.remove, fifo.size/fifo.peek) at any time.
C13_MutualExclusion ==
  /\ [](/\ Cardinality(InSection) <= 1
        /\ \A t \in InSection : mutex = t
        /\ InSection = {} => mutex = Unlocked)
  /\ [][ /\ \A t \in DOMAIN pc :
              (fifo_add(t) \/ fifo_remove(t) \/ fifo_peek(t)) =>
                  /\ mutex = t /\ mutex' = t
                  /\ InSection = {t}
         /\ <<buffer, head, tail, fifo_size, fifo_cap>>' #
              <<buffer, head, tail, fifo_size, fifo_cap>> =>
              \E t \in DOMAIN pc :
                 /\ mutex = t /\ pc[t] = "fifo" /\ pc'[t] = "unlock"
                 /\ \A u \in DOMAIN pc \ {t} : pc'[u] = pc[u]
       ]_vars

\* One thread is about to change the buffer under the mutex while another
\* thread, holding a permit, waits for the mutex.
C13_Witness ==
  \E t \in DOMAIN pc :
    /\ mutex = t /\ pc[t] = "fifo" /\ opn[t] \in {"add", "add_wait"}
    /\ \E u \in DOMAIN pc \ {t} :
         pc[u] = "lock" /\ opn[u] \in {"remove", "remove_wait"}

\* C14: in add, add_wait, remove and remove_wait the permit is taken
\* strictly before the mutex is locked and the complementary permit is
\* released strictly after the mutex is unlocked: every step that changes a
\* semaphore is taken by a thread that does not hold the mutex, a thread
\* reaches the lock only by taking its permit, and it posts only after its
\* unlock. No thread waits on a semaphore while holding the mutex.
C14_SemaphoreOutsideMutex ==
  /\ [](\A t \in DOMAIN pc :
           pc[t] \in {"idle", "sem_wait", "lock", "post"} => mutex # t)
  /\ [][ \A t \in DOMAIN pc :
          /\ (pc'[t] # pc[t] /\ <<add_sem, rem_sem>>' # <<add_sem, rem_sem>>)
               => mutex # t /\ mutex' = mutex
          /\ (pc[t] # "lock" /\ pc'[t] = "lock" /\ opn'[t] # "peek") =>
               IF opn'[t] \in {"add", "add_wait"}
               THEN add_sem' = add_sem - 1 /\ rem_sem' = rem_sem
               ELSE rem_sem' = rem_sem - 1 /\ add_sem' = add_sem
          /\ (pc[t] # "post" /\ pc'[t] = "post") =>
               /\ pc[t] = "unlock" /\ mutex = t /\ mutex' = Unlocked
               /\ UNCHANGED <<add_sem, rem_sem>>
          /\ (pc[t] = "post" /\ pc'[t] # "post") =>
               /\ pc'[t] = "idle"
               /\ IF opn[t] \in {"add", "add_wait"}
                  THEN rem_sem' = rem_sem + 1 /\ add_sem' = add_sem
                  ELSE add_sem' = add_sem + 1 /\ rem_sem' = rem_sem
       ]_vars

\* A thread is blocked in sem_wait on the exhausted add_sem while another
\* thread holds the mutex.
C14_Witness ==
  \E t \in DOMAIN pc :
    /\ pc[t] = "sem_wait" /\ opn[t] = "add_wait" /\ add_sem = 0
    /\ \E u \in DOMAIN pc \ {t} : mutex = u /\ pc[u] = "unlock"

\* Slots of the storage that hold a constructed, not yet finalized element.
LiveSlots == {s \in DOMAIN buffer : buffer[s] # NoObj}

\* The count slots starting at head, wrapping around.
QueuedSlots == {(head + i) % fifo_cap : i \in 0 .. fifo_size - 1}

\* C15: after any sequence of add and remove calls on a FIFOBuff, exactly
\* the count slots starting at head hold live constructed elements and
\* every other slot is uninitialized; remove finalizes the slot at head and
\* no other, so no live element is left unfinalized and no uninitialized
\* slot is finalized.
C15_LiveSlotsFromHead ==
  /\ [](~destroyed => LiveSlots = QueuedSlots)
  /\ [][ \A pitem \in {nullptr, Main} :
          (remove(pitem) /\ fifo_size > 0) =>
             /\ buffer[head] # NoObj
             /\ buffer' = [buffer EXCEPT ![head] = NoObj]
       ]_vars

\* C16: in FIFOBuff_TS the inner calls whose result goes unchecked never
\* fail: a thread holding a permit of add_sem finds count < capacity when it
\* runs fifo.add under the mutex, and a thread holding a permit of rem_sem
\* finds count > 0 when it runs fifo.remove, so both return true and every
\* add, add_wait, remove and remove_wait that goes on to return has
\* changed the buffer.
C16_InnerCallsSucceed ==
  /\ [](\A t \in DOMAIN pc :
          (pc[t] \in {"lock", "fifo"} /\ opn[t] # "peek") =>
             IF opn[t] \in {"add", "add_wait"}
             THEN fifo_size < fifo_cap
             ELSE fifo_size > 0)
  /\ [][ \A t \in DOMAIN pc :
          /\ fifo_add(t) =>
                /\ rv' = TRUE
                /\ fifo_size' = fifo_size + 1
                /\ buffer'[tail] = arg_item[t]
          /\ fifo_remove(t) =>
                /\ rv' = TRUE
                /\ fifo_size' = fifo_size - 1
                /\ head' = (head + 1) % fifo_cap
       ]_vars

\* An add has just filled the last free slot of a two-slot queue under the
\* mutex, its inner call having returned true.
C16_Witness ==
  \E t \in DOMAIN pc :
    /\ pc[t] = "unlock" /\ opn[t] \in {"add", "add_wait"}
    /\ rv = TRUE /\ fifo_size = fifo_cap /\ fifo_cap = 2
    /\ \E u \in DOMAIN pc \ {t} : pc[u] = "sem_wait" /\ opn[u] = "add_wait"

\* C17: every reachable state of a FIFOBuff with capacity >= 1 has
\* 0 <= count <= capacity, 0 <= head < capacity, 0 <= tail < capacity and
\* tail = (head + count) mod capacity, so head = tail exactly when the
\* buffer is empty or full; size() returns count, which is the number of
\* successful adds minus the number of successful removes.
C17_RingInvariant ==
  /\ fifo_cap >= 1
  /\ fifo_size \in 0 .. fifo_cap
  /\ head \in 0 .. fifo_cap - 1
  /\ tail \in 0 .. fifo_cap - 1
  /\ tail = (head + fifo_size) % fifo_cap
  /\ (head = tail) <=> (fifo_size = 0 \/ fifo_size = fifo_cap)
  /\ size = fifo_size
  /\ ~destroyed => size = nadded - nremoved

\* Adds and removes have taken tail around the end of a three-slot storage
\* while head is further on, with one more add than removes plus one.
C17_Witness ==
  /\ ~destroyed /\ fifo_cap = 3
  /\ tail < head /\ fifo_size = 2
  /\ nremoved >= 2 /\ op = "add"

\* Adders that hold a permit of add_sem and have not yet inserted.
AddersBefore ==
  {t \in DOMAIN pc : pc[t] \in {"lock", "fifo"}
                      /\ opn[t] \in {"add", "add_wait"}}

\* Adders that have inserted and have not yet posted rem_sem.
AddersAfter ==
  {t \in DOMAIN pc : pc[t] \in {"unlock", "post"}
                      /\ opn[t] \in {"add", "add_wait"}}

\* Removers that hold a permit of rem_sem and have not yet removed.
RemoversBefore ==
  {t \in DOMAIN pc : pc[t] \in {"lock", "fifo"}
                      /\ opn[t] \in {"remove", "remove_wait"}}

\* Removers that have removed and have not yet posted add_sem.
RemoversAfter ==
  {t \in DOMAIN pc : pc[t] \in {"unlock", "post"}
                      /\ opn[t] \in {"remove", "remove_wait"}}

\* C18: in FIFOBuff_TS rem_sem never exceeds the wrapped count and add_sem
\* never exceeds capacity - count; precisely, rem_sem = count - (adders that
\* have inserted but not yet posted) - (removers holding a permit that have
\* not yet removed) and add_sem = capacity - count - (adders holding a
\* permit that have not yet inserted) - (removers that have removed but not
\* yet posted).
C18_PermitAccounting ==
  /\ rem_sem <= fifo_size
  /\ add_sem <= fifo_cap - fifo_size
  /\ rem_sem = fifo_size - Cardinality(AddersAfter)
                         - Cardinality(RemoversBefore)
  /\ add_sem = fifo_cap - fifo_size - Cardinality(AddersBefore)
                                    - Cardinality(RemoversAfter)

\* One adder has inserted and not yet posted while a remover holds a permit
\* and has not yet removed, so rem_sem is two below the count.
C18_Witness ==
  /\ AddersAfter # {} /\ RemoversBefore # {}
  /\ fifo_size = 2 /\ rem_sem = 0

\* C19: FIFOBuff_TS::peek never waits on or changes add_sem or rem_sem and
\* leaves the wrapped buffer's head, tail, count and elements unchanged; it
\* returns true exactly when the wrapped count was > 0 at the moment it held
\* the mutex, and it always releases the mutex before returning.
C19_PeekFrame ==
  /\ [](\A t \in DOMAIN pc :
          opn[t] = "peek" => /\ pc[t] \notin {"sem_wait", "post"}
                             /\ pc[t] = "idle" => mutex # t)
  /\ [][ \A t \in DOMAIN pc :
          /\ (\/ \E p \in {nullptr, t} : peek_enter(t, p)
              \/ opn[t] = "peek" /\ pc[t] # "idle" /\ pc'[t] # pc[t]) =>
                UNCHANGED <<add_sem, rem_sem, buffer, head, tail, fifo_size,
                            fifo_cap, count, absq>>
          /\ fifo_peek(t) =>
                /\ mutex = t
                /\ ret'[t] = (fifo_size > 0)
          /\ (opn[t] = "peek" /\ pc[t] # "idle" /\ pc'[t] = "idle") =>
                /\ pc[t] = "unlock"
                /\ mutex = t /\ mutex' = Unlocked
                /\ ret'[t] = ret[t]
       ]_vars

\* A peek has returned true with the mutex released while the other thread
\* is in the middle of a remove that holds the permit of the only element.
C19_Witness ==
  \E t \in DOMAIN pc :
    /\ pc[t] = "idle" /\ opn[t] = "peek" /\ ret[t] = TRUE
    /\ mutex = Unlocked /\ fifo_size = 1 /\ rem_sem = 0
    /\ \E u \in DOMAIN pc \ {t} : pc[u] = "lock" /\ opn[u] = "remove"

\* Thread t makes a non-blocking add that returns false.
AddFails(t) ==
  /\ \E v \in Values : add_trywait(t, v)
  /\ pc'[t] = "idle" /\ ret'[t] = FALSE

\* Thread t makes a non-blocking remove that returns false.
RemoveFails(t) ==
  /\ \E p \in {nullptr, t} : remove_trywait(t, p)
  /\ pc'[t] = "idle" /\ ret'[t] = FALSE

\* C20 (as stated): on FIFOBuff_TS the non-blocking add returns false only
\* if the wrapped buffer is full (count = capacity) at the moment of the
\* attempt, and the non-blocking remove returns false only if it is empty
\* (count = 0), under every interleaving.
C20_FailsOnlyFullOrEmpty ==
  [][ \A t \in DOMAIN pc :
        /\ AddFails(t) => fifo_size = fifo_cap
        /\ RemoveFails(t) => fifo_size = 0
    ]_vars

\* C20 (amended): the non-blocking add returns false only if add_sem has no
\* permit at the moment of the attempt, that is, only if the count plus the
\* adders holding a permit and not yet inserted plus the removers that have
\* removed and not yet posted equals the capacity; the non-blocking remove
\* returns false only if rem_sem has no permit, that is, only if the count
\* equals the adders that have inserted and not yet posted plus the
\* removers holding a permit and not yet removed.  With no other add or
\* remove in flight these mean full and empty.
C20_FailsOnlyWithoutPermit ==
  [][ \A t \in DOMAIN pc :
        /\ AddFails(t) =>
             /\ add_sem = 0
             /\ fifo_size + Cardinality(AddersBefore)
                          + Cardinality(RemoversAfter) = fifo_cap
             /\ InFlight = {} => fifo_size = fifo_cap
        /\ RemoveFails(t) =>
             /\ rem_sem = 0
             /\ fifo_size = Cardinality(AddersAfter)
                            + Cardinality(RemoversBefore)
             /\ InFlight = {} => fifo_size = 0
    ]_vars

\* A non-blocking add has returned false on a buffer that is not full: the
\* other thread has removed an element and not yet posted add_sem.
C20_Witness ==
  \E t \in DOMAIN pc :
    /\ pc[t] = "idle" /\ opn[t] = "add" /\ ret[t] = FALSE
    /\ add_sem = 0 /\ fifo_size < fifo_cap
    /\ RemoversAfter # {}

====
